---- MODULE Spec2Model ----
(***************************************************************************)
(* Model of albedo's BLAS aggregator (crates/albedo_rtx/src/blas.rs):      *)
(* BLASArray with its five arrays, add_bvh, add_bvh_indexed, add_instance  *)
(* and the encoder `test` that turns the hierarchy builder's output into   *)
(* nodes and primitives.                                                   *)
(*                                                                         *)
(* f32 values are modelled by integers, 0-based Rust indices by 1-based    *)
(* TLA+ sequence positions (element k of a Rust slice is seq[k + 1]).      *)
(* A Rust panic is modelled as the result "panic" of the call, the arrays  *)
(* holding what the call had written when it panicked.                     *)
(*                                                                         *)
(* The views that stage the geometry are modelled next to it: indexing an  *)
(* AttributeSlice of a Primitive (crates/albedo_backend/src/mesh/          *)
(* primitive.rs) and StridedSlice::get of the native plugin                *)
(* (crates/albedo_lightmapper_native/src/lib.rs), byte offsets 0-based.    *)
(***************************************************************************)
EXTENDS Integers, Sequences, FiniteSets, TLC

\* ------------------------------------------------------------------ bounds
\* Number of add_bvh / add_bvh_indexed calls in one behaviour.
MaxMeshes == 2
\* Number of successful add_instance calls in one behaviour.
MaxInstances == 2
\* Longest position / normal / texcoord view handed to add_bvh.
MaxVerts == 6
\* Longest index array handed to add_bvh_indexed.
MaxIdx == 6
\* Most nodes the hierarchy builder emits for one mesh.
MaxNodes == 2
\* Most elements of a Primitive or of a foreign strided buffer.
MaxCount == 2
\* Most threads calling the plugin, and most plugin calls begun in all.
MaxThreads == 2
MaxCalls == 4

VARIABLES
    entries,     \* BLASArray::entries
    nodes,       \* BLASArray::nodes
    primitives,  \* BLASArray::primitives
    vertices,    \* BLASArray::vertices
    instances,   \* BLASArray::instances
    builder,     \* the (fixed, deterministic) behaviour of the hierarchy builder
    call,        \* the last call made on the aggregator: arguments and result
    appended,    \* per add_bvh / add_bvh_indexed call: vertices it appended
    created,     \* per instance: the bvh_index its add_instance call was given
    view,        \* an access to a view: the request, then its outcome
    plugin,      \* the lightmapper plugin: static `app`, its mutex, callers
    set_call,    \* an AttributeSlice::set call: the Primitive, then outcome
    encoder      \* wgpu::CommandEncoder: the commands dispatch recorded

vars ==
    <<entries, nodes, primitives, vertices, instances, builder, call, appended,
      created, view, plugin, set_call, encoder>>

\* ------------------------------------------------------------ value helpers
\* glam::Vec3A subtraction, component by component.
Sub3(a, b) == <<a[1] - b[1], a[2] - b[2], a[3] - b[3]>>

\* Option<pas::Slice<..>>: None, or Some(view).
None == [some |-> FALSE, view |-> <<>>]
Some(v) == [some |-> TRUE, view |-> v]

\* Vertex::default(): position and normal all zero.
DefaultVertex == [position |-> <<0, 0, 0, 0>>, normal |-> <<0, 0, 0, 0>>]

\* ------------------------------------------------- caller-owned mesh views
\* Source element k (0-based) of a view has a content that depends on k and
\* on the attribute, so that a vertex copied from the wrong element or the
\* wrong attribute is told apart.  No component is 0 except where stated.
PositionAt(k) == <<k + 1, (k + 1) * (k + 1), 10 + k, 70 + k>>
NormalAt(k) == <<20 + k, 30 + k, 40 + k>>
TexcoordAt(k) == <<50 + k, 60 + k>>

PositionView(n) == [i \in 1..n |-> PositionAt(i - 1)]
NormalView(n) == [i \in 1..n |-> NormalAt(i - 1)]
TexcoordView(n) == [i \in 1..n |-> TexcoordAt(i - 1)]

\* ------------------------------------------------------- hierarchy builder
\* obvhs::cwbvh::builder::build_cwbvh_from_tris is a library outside this
\* repository.  It is a deterministic function that this model does not know:
\* `builder` is drawn once, in Init, and every call uses the same one.
\*   reverse      the order of bvh.primitive_indices: 0..c-1 or c-1..0
\*   node_count   the number of nodes built for a mesh with triangles
\*   empty_nodes  the number of nodes built for a mesh without triangles
\*   exponent     the biased exponent byte (u8) the nodes' scales are around
Builders ==
    {[reverse |-> r, node_count |-> k, empty_nodes |-> IF k = 1 THEN 0 ELSE 1,
      exponent |-> 127] :
        r \in BOOLEAN, k \in 1..MaxNodes}

\* Builders whose exponent bytes take every u8 value on every axis.
ExponentBuilders ==
    {[reverse |-> FALSE, node_count |-> k,
      empty_nodes |-> IF k = 1 THEN 0 ELSE 1, exponent |-> e] :
        k \in 1..MaxNodes, e \in 0..255}

\* bvh.primitive_indices: a permutation of the triangle indices 0..c-1.
primitive_indices(b, c) ==
    [j \in 1..c |-> IF b.reverse THEN c - j ELSE j - 1]

\* First primitive (0-based, in permuted order) of the leaves of node j of k.
ChunkStart(j, k, c) == ((j - 1) * c) \div k

\* bvh.nodes: node j of k holds the leaves ChunkStart(j)..ChunkStart(j+1)-1,
\* one primitive per leaf child; child_meta lists each leaf child's offset
\* from primitive_base_idx.  e is the biased exponent byte per axis.
bvh_nodes(b, c) ==
    LET k == IF c = 0 THEN b.empty_nodes ELSE b.node_count
    IN  [j \in 1..k |->
            [p |-> <<0 - j, 0, j>>,
             e |-> <<(b.exponent - j) % 256, b.exponent,
                     (b.exponent + j) % 256>>,
             imask |-> IF j = 1 /\ k > 1 THEN 1 ELSE 0,
             child_base_idx |-> IF j = 1 /\ k > 1 THEN 1 ELSE 0,
             primitive_base_idx |-> ChunkStart(j, k, c),
             child_meta |->
                [o \in 1..(ChunkStart(j + 1, k, c) - ChunkStart(j, k, c))
                    |-> o - 1]]]

build_cwbvh_from_tris(b, tris) ==
    [nodes |-> bvh_nodes(b, Len(tris)),
     primitive_indices |-> primitive_indices(b, Len(tris))]

\* ------------------------------------------------------------------ test()
\* u8::saturating_sub in the place of wrapping_sub.
saturating_sub(a, b) == IF a < b THEN 0 ELSE a - b

\* u8::wrapping_sub
wrapping_sub(a, b) == (a - b) % 256

\* The triangle list: triangle i is made of elements 3i, 3i+1, 3i+2 of the
\* position view, of which the first three components are kept.
Xyz(v) == <<v[1], v[2], v[3]>>

Triangles(positions) ==
    [i \in 1..(Len(positions) \div 3) |->
        [v0 |-> Xyz(positions[3 * (i - 1) + 1]),
         v1 |-> Xyz(positions[3 * (i - 1) + 2]),
         v2 |-> Xyz(positions[3 * (i - 1) + 3])]]

\* EncodeNode making the child and primitive indices global: offset by the
\* lengths of the aggregator's arrays.
EncodeNode_global_indices(node) ==
    [min |-> node.p,
     exyz |-> <<wrapping_sub(node.e[1], 127),
                wrapping_sub(node.e[2], 127),
                wrapping_sub(node.e[3], 127)>>,
     imask |-> node.imask,
     child_base_idx |-> node.child_base_idx + Len(nodes),
     primitive_base_idx |-> (node.primitive_base_idx + Len(primitives)) * 3,
     child_meta |-> node.child_meta]

\* BVHNode built from one node of the builder's hierarchy.
EncodeNode(node) ==
    [min |-> node.p,
     exyz |-> <<wrapping_sub(node.e[1], 127),
                wrapping_sub(node.e[2], 127),
                wrapping_sub(node.e[3], 127)>>,
     imask |-> node.imask,
     child_base_idx |-> node.child_base_idx,
     primitive_base_idx |-> node.primitive_base_idx * 3,
     child_meta |-> node.child_meta]

\* EncodePrimitive recording the place of the triangle's first vertex
\* instead of the triangle's index.
EncodePrimitive_vertex_index(tris, index) ==
    LET tri == tris[index + 1]
    IN  [edge_1 |-> Sub3(tri.v1, tri.v0),
         edge_2 |-> Sub3(tri.v2, tri.v0),
         vertex_0 |-> tri.v0,
         original_primitive |-> index * 3]

\* Primitive built from the triangle the builder put at this place.
EncodePrimitive(tris, index) ==
    LET tri == tris[index + 1]
    IN  [edge_1 |-> Sub3(tri.v1, tri.v0),
         edge_2 |-> Sub3(tri.v2, tri.v0),
         vertex_0 |-> tri.v0,
         original_primitive |-> index]

\* test(positions) -> (nodes, primitives)
test(b, positions) ==
    LET tris == Triangles(positions)
        bvh == build_cwbvh_from_tris(b, tris)
    IN  [nodes |-> [j \in 1..Len(bvh.nodes) |-> EncodeNode(bvh.nodes[j])],
         primitives |->
            [j \in 1..Len(bvh.primitive_indices) |->
                EncodePrimitive(tris, bvh.primitive_indices[j])]]

\* --------------------------------------------------------------- BLASArray
\* NewEntry with the vertex offset taken from the wrong array.
NewEntry_vertex_from_primitives ==
    [node |-> Len(nodes),
     primitive |-> Len(primitives),
     vertex |-> Len(primitives)]

\* NewEntry with the node offset and the primitive offset exchanged.
NewEntry_node_primitive_swapped ==
    [node |-> Len(primitives),
     primitive |-> Len(nodes),
     vertex |-> Len(vertices)]

\* BLASEntryDescriptor pushed by add_bvh / add_bvh_indexed: the lengths of
\* the three arrays when the call starts.
NewEntry ==
    [node |-> Len(nodes),
     primitive |-> Len(primitives),
     vertex |-> Len(vertices)]

\* `vertices[i].normal = [normal[0], normal[1], normal[2], 0.0]`
WithNormal(vertex, normal) ==
    [vertex EXCEPT !.normal = <<normal[1], normal[2], normal[3], 0>>]

\* PackUv with u and v exchanged.
PackUv_swapped(vertex, uv) ==
    [vertex EXCEPT !.position[4] = uv[2], !.normal[4] = uv[1]]

\* `vertices[i].position[3] = uv[0]; vertices[i].normal[3] = uv[1]`
PackUv(vertex, uv) ==
    [vertex EXCEPT !.position[4] = uv[1], !.normal[4] = uv[2]]

\* add_bvh, the three loops over the freshly resized run
\* `vertices[start..]` of mesh.positions.len() default vertices.  A loop over
\* a view longer than the run panics at `vertices[i]`, after having written
\* the elements before.
add_bvh_vertices(mesh) ==
    LET n == Len(mesh.positions)
        nN == IF mesh.normals.some THEN Len(mesh.normals.view) ELSE 0
        nT == IF mesh.texcoords0.some THEN Len(mesh.texcoords0.view) ELSE 0
        r1 == [i \in 1..n |->
                 [DefaultVertex EXCEPT !.position =
                    <<mesh.positions[i][1], mesh.positions[i][2],
                      mesh.positions[i][3], 0>>]]
        r2 == [i \in 1..n |->
                 IF i <= nN
                 THEN WithNormal(r1[i], mesh.normals.view[i])
                 ELSE r1[i]]
        panicN == nN > n
        r3 == [i \in 1..n |->
                 IF ~panicN /\ i <= nT
                 THEN PackUv(r2[i], mesh.texcoords0.view[i])
                 ELSE r2[i]]
        panicT == ~panicN /\ nT > n
    IN  [run |-> r3, panicked |-> panicN \/ panicT]

\* Place (1-based) of the first index that is outside a view of `len`
\* elements: `view[*index as usize]` panics there.  Len(indices) + 1 if none.
FirstOutOfBounds(indices, len) ==
    LET bad == {i \in 1..Len(indices) : indices[i] >= len}
    IN  IF bad = {} THEN Len(indices) + 1
        ELSE CHOOSE i \in bad : \A j \in bad : i <= j

\* add_bvh_indexed_vertices reading the views in order, as add_bvh does,
\* without going through desc.indices.
add_bvh_indexed_vertices_ignoring_indices(desc) == add_bvh_vertices(desc.mesh)

\* add_bvh_indexed, the three loops over the freshly resized run of
\* desc.indices.len() default vertices.
add_bvh_indexed_vertices(desc) ==
    LET n == Len(desc.indices)
        mesh == desc.mesh
        f1 == FirstOutOfBounds(desc.indices, Len(mesh.positions))
        r1 == [i \in 1..n |->
                 IF i < f1
                 THEN [DefaultVertex EXCEPT !.position =
                         mesh.positions[desc.indices[i] + 1]]
                 ELSE DefaultVertex]
        panic1 == f1 <= n
        f2 == IF mesh.normals.some /\ ~panic1
              THEN FirstOutOfBounds(desc.indices, Len(mesh.normals.view))
              ELSE IF panic1 THEN 1 ELSE n + 1
        r2 == [i \in 1..n |->
                 IF mesh.normals.some /\ i < f2
                 THEN WithNormal(r1[i], mesh.normals.view[desc.indices[i] + 1])
                 ELSE r1[i]]
        panic2 == panic1 \/ f2 <= n
        f3 == IF mesh.texcoords0.some /\ ~panic2
              THEN FirstOutOfBounds(desc.indices, Len(mesh.texcoords0.view))
              ELSE IF panic2 THEN 1 ELSE n + 1
        r3 == [i \in 1..n |->
                 IF mesh.texcoords0.some /\ i < f3
                 THEN PackUv(r2[i], mesh.texcoords0.view[desc.indices[i] + 1])
                 ELSE r2[i]]
        panic3 == panic2 \/ f3 <= n
    IN  [run |-> r3, panicked |-> panic3]

\* pas::Slice::new(vertices, 0): the view of the position field of a run.
PositionsOf(run) == [i \in 1..Len(run) |-> run[i].position]

\* glam::Mat4 is modelled by a uniform scale, the fraction m[1] / m[2];
\* Mat4::inverse() divides by the determinant without a check, so the
\* inverse of a singular matrix has a zero denominator (inf / NaN entries).
inverse(m) == <<m[2], m[1]>>

\* NewInstance with the vertex and the primitive offsets exchanged.
NewInstance_offsets_swapped(entry, model_to_world, material) ==
    [model_to_world |-> model_to_world,
     world_to_model |-> inverse(model_to_world),
     material_index |-> material,
     bvh_root_index |-> entry.node,
     vertex_root_index |-> entry.primitive,
     bvh_primitive_index |-> entry.vertex]

\* NewInstance taking the offsets from the current ends of the arrays
\* instead of the entry.
NewInstance_array_ends(entry, model_to_world, material) ==
    [model_to_world |-> model_to_world,
     world_to_model |-> inverse(model_to_world),
     material_index |-> material,
     bvh_root_index |-> Len(nodes),
     vertex_root_index |-> Len(vertices),
     bvh_primitive_index |-> Len(primitives)]

\* The Instance pushed by add_instance for an entry.
NewInstance(entry, model_to_world, material) ==
    [model_to_world |-> model_to_world,
     world_to_model |-> inverse(model_to_world),
     material_index |-> material,
     bvh_root_index |-> entry.node,
     vertex_root_index |-> entry.vertex,
     bvh_primitive_index |-> entry.primitive]

\* extend putting the new elements in front of the old ones.
extend_in_front(array, run) == run \o array

\* Vec::extend: `self.nodes.extend(val.0); self.primitives.extend(val.1)`
extend(array, run) == array \o run

\* ------------------------------------------------------------------ views
\* Sum of the byte sizes of the first n attribute formats.
RECURSIVE SumSizes(_, _)
SumSizes(formats, n) == IF n = 0 THEN 0 ELSE formats[n] + SumSizes(formats, n - 1)

\* compute_stride / byte_offset_for: attribute formats are modelled by their
\* byte sizes (wgpu::VertexFormat::size).
compute_stride(formats) == SumSizes(formats, Len(formats))
byte_offset_for(formats, element) == SumSizes(formats, element)

\* Primitive::interleaved_with_count: one vector of count * stride zero bytes.
interleaved_with_count(n, formats) ==
    [layout |-> "Interleaved",
     attribute_formats |-> formats,
     data |-> [i \in 1..(n * compute_stride(formats)) |-> 0],
     soa |-> <<>>]

\* Primitive::soa_with_count: one vector per attribute, created with
\* Vec::with_capacity, so of length 0.
soa_with_count(n, formats) ==
    [layout |-> "SoA",
     attribute_formats |-> formats,
     data |-> <<>>,
     soa |-> [a \in 1..Len(formats) |-> <<>>]]

\* Primitive::attribute::<T>(a), size being size_of::<T>(): panics when T is
\* wider than the attribute's format, else the AttributeSlice over the
\* interleaved vector or over the attribute's own vector.
attribute(prim, a, size) ==
    LET byte_size == prim.attribute_formats[a + 1]
    IN  IF size > byte_size
        THEN [panicked |-> TRUE, data |-> <<>>, byte_offset |-> 0,
              byte_end |-> 0, stride |-> 1]
        ELSE IF prim.layout = "Interleaved"
        THEN [panicked |-> FALSE,
              data |-> prim.data,
              byte_offset |-> byte_offset_for(prim.attribute_formats, a),
              byte_end |-> Len(prim.data),
              stride |-> compute_stride(prim.attribute_formats)]
        ELSE [panicked |-> FALSE,
              data |-> prim.soa[a + 1],
              byte_offset |-> 0,
              byte_end |-> Len(prim.soa[a + 1]),
              stride |-> byte_size]

\* AttributeSlice::len
AttributeSlice_len(slice) == Len(slice.data) \div slice.stride

\* <AttributeSlice as Index<usize>>::index: panics when start_byte is at or
\* past byte_end, and in the range check of `&self.data[start..start + size]`;
\* else reads the size bytes from start_byte on.
AttributeSlice_index(slice, size, i) ==
    LET start_byte == slice.byte_offset + slice.stride * i
    IN  IF start_byte >= slice.byte_end \/ start_byte + size > Len(slice.data)
        THEN [result |-> "panic", read |-> {}]
        ELSE [result |-> "ok", read |-> start_byte..(start_byte + size - 1)]

\* The bytes StridedSlice::get::<M>(i) dereferences, size being
\* size_of::<M>(): `self.data.offset(stride * i)`, no test against any count.
StridedSlice_get(stride, size, i) == (stride * i)..(stride * i + size - 1)

\* No access made.
NoView ==
    [kind |-> "none", layout |-> "none", formats |-> <<>>, attribute |-> 0,
     stride |-> 0, size |-> 0, elements |-> 0, index |-> 0,
     result |-> "none", read |-> {}, extent |-> 0, len |-> 0]

\* Attribute formats of a Primitive, by byte size: Float32x3 alone;
\* Float32x3, Float32x3, Float32x2; Float32x4, Float32x2.
AttributeFormats == {<<12>>, <<12, 12, 8>>, <<16, 8>>}

\* size_of::<T>() of the element types asked for: f32, [f32; 2], [f32; 3],
\* [f32; 4].
ElementSizes == {4, 8, 12, 16}

\* Requests to index attribute a of a Primitive of n elements at place i,
\* i running one place past the last element and beyond.
AttributeSliceRequests ==
    {[NoView EXCEPT !.kind = "AttributeSlice", !.layout = l, !.formats = f,
                    !.attribute = a, !.size = t, !.elements = n, !.index = i,
                    !.result = "pending"] :
        l \in {"Interleaved", "SoA"},
        f \in AttributeFormats, a \in 0..2, t \in ElementSizes,
        n \in 0..MaxCount, i \in 0..(MaxCount + 1)}

\* Foreign buffers of the plugin, <<stride, element size>>: packed [f32; 3],
\* [f32; 3] every 16 bytes, packed [f32; 2].
StridedLayouts == {<<12, 12>>, <<16, 12>>, <<8, 8>>}

\* Requests to read element i of a foreign buffer that the caller declared
\* to hold n elements.
StridedSliceRequests ==
    {[NoView EXCEPT !.kind = "StridedSlice", !.layout = "Foreign",
                    !.stride = sl[1], !.size = sl[2], !.elements = n,
                    !.index = i, !.result = "pending"] :
        sl \in StridedLayouts, n \in 0..MaxCount, i \in 0..(MaxCount + 1)}

\* ------------------------------------------------------------ call records
NoMesh == [positions |-> <<>>, normals |-> None, texcoords0 |-> None]

\* The five arrays of the aggregator, as one value.
Self ==
    [entries |-> entries, nodes |-> nodes, primitives |-> primitives,
     vertices |-> vertices, instances |-> instances]

\* A call: its arguments, its result ("ok", or "panic" when it unwinds) and
\* the arrays as they were when it started.
CallRecord(op, mesh, indices, bvh_index, model_to_world, material, result) ==
    [op |-> op, mesh |-> mesh, indices |-> indices, bvh_index |-> bvh_index,
     model_to_world |-> model_to_world, material |-> material,
     result |-> result, before |-> Self]

\* ----------------------------------------------------------------- plugin
\* Threads of the host calling the entry points of the plugin.
Threads == 1..MaxThreads

\* Panic messages of the entry points.
UnwrapNone == "called Option::unwrap() on a None value"
NoSceneProvided == "No scene provided before bake()"
NotTriangles == "Vertex count must be a multiple of 3"
CopyLengths == "source slice length does not match destination slice length"

\* App::new(): an application without a scene.  A scene is 0 for None, or
\* k for Some(the scene built by the k-th call of the plugin).
App_new == [some |-> TRUE, scene |-> 0]

\* Result<BLASArray, &str> of BLASArray::new(&[desc], &mut builder).
BLASArray_new == {"Ok", "Err"}

\* `static app: Mutex<Option<App>> = Mutex::new(None)`, no thread inside an
\* entry point.  owner is the thread holding the MutexGuard, 0 for none;
\* pc is each thread's place; aborted and by are the panic that ended the
\* process and the entry point that raised it; stored and rendered are the
\* scenes that set_mesh_data stored and that bake made a Renderer for.
NoPlugin ==
    [app |-> [some |-> FALSE, scene |-> 0],
     owner |-> 0,
     pc |-> [t \in Threads |-> "idle"],
     id |-> [t \in Threads |-> 0],
     scene_before |-> [t \in Threads |-> 0],
     calls |-> 0,
     aborted |-> "",
     by |-> "",
     stored |-> {},
     rendered |-> {}]

\* Mutex::lock that does not wait for the guard to be dropped.
lock_without_waiting(p) == TRUE

\* Mutex::lock returns once no other guard is alive.
lock(p) == p.owner = 0

\* bake going on to the renderer whatever runtime.scene holds.
scene_provided_always(a) == TRUE

\* bake: `match &runtime.scene { Some(val) => val, None => panic!(..) }`
scene_provided(a) == a.scene # 0

\* The MutexGuard is a local of the entry point: dropped when it returns.
Return(p, t) == [p EXCEPT !.owner = 0, !.pc[t] = "idle"]

\* A panic inside an `extern "C"` function ends the process.
Abort(p, op, message) == [p EXCEPT !.aborted = message, !.by = op]

\* ------------------------------------------------------ AttributeSlice::set
\* Smallest element of a non-empty set of naturals.
Least(S) == CHOOSE x \in S : \A y \in S : x <= y

\* set writing element i at stride * i, without the attribute's byte offset.
set_dst_start_without_offset(slice, i) == slice.stride * i

\* set: `let dst_start = self.byte_offset + self.stride * i;`
set_dst_start(slice, i) == slice.byte_offset + slice.stride * i

\* AttributeSlice::<T>::set::<V>(data), size and other_stride being
\* size_of::<T>() and size_of::<V>(), bytes the bytes of data.  Both tests
\* come before the loop; the loop stops at the first copy whose range leaves
\* the vector, the earlier copies being made.
AttributeSlice_set(slice, size, bytes, other_stride) ==
    LET n == Len(bytes) \div other_stride
        past == {i \in 0..(n - 1) :
                    set_dst_start(slice, i) + other_stride > Len(slice.data)}
        copied == IF past = {} THEN n ELSE Least(past)
        Source(k) ==
            {<<i, b>> \in (0..(copied - 1)) \X (0..(other_stride - 1)) :
                set_dst_start(slice, i) + b = k - 1}
        Byte(k) ==
            IF Source(k) = {} THEN slice.data[k]
            ELSE LET last == CHOOSE ib \in Source(k) :
                                \A o \in Source(k) : o[1] <= ib[1]
                 IN  bytes[last[1] * other_stride + last[2] + 1]
    IN  IF other_stride > size
        THEN [result |-> "panic_width", data |-> slice.data]
        ELSE IF n > AttributeSlice_len(slice)
        THEN [result |-> "panic_count", data |-> slice.data]
        ELSE [result |-> IF past = {} THEN "ok" ELSE "panic_range",
              data |-> [k \in 1..Len(slice.data) |-> Byte(k)]]

\* The bytes of `count` elements of other_stride bytes each: none is zero.
SourceBytes(m, other_stride) == [j \in 1..(m * other_stride) |-> j]

\* No set call made.
NoSet ==
    [op |-> "none", formats |-> <<>>, attribute |-> 0, size |-> 0,
     other_stride |-> 0, elements |-> 0, count |-> 0, result |-> "none",
     data |-> <<>>]

\* Calls of attribute::<T>(a).set::<V>(data) on an interleaved Primitive of
\* n elements, data holding m elements, one more than n at most.
SetRequests ==
    {[op |-> "pending", formats |-> f, attribute |-> a, size |-> t,
      other_stride |-> v, elements |-> n, count |-> m, result |-> "pending",
      data |-> interleaved_with_count(n, f).data] :
        f \in AttributeFormats, a \in 0..2, t \in ElementSizes,
        v \in ElementSizes, n \in 0..MaxCount, m \in 0..(MaxCount + 1)}

\* -------------------------------------------------------------- ATrousPass
\* ATrousPass::new: `count: 4`
ATrousPass_count == 4

\* ATrousPass::WORKGROUP_SIZE
WORKGROUP_SIZE == <<8, 8, 1>>

\* get_dispatch_size: the component-wise quotient, rounded up.
get_dispatch_size(size, workgroup_size) ==
    [c \in 1..3 |-> (size[c] + workgroup_size[c] - 1) \div workgroup_size[c]]

\* ATrousPass::create_frame_bind_groups: the second group swaps the texture
\* read (RADIANCE_BINDING) with the texture written (RADIANCE_OUT_BINDING).
create_frame_bind_groups(out_radiance, gbuffer, radiance, sampler) ==
    <<[gbuffer |-> gbuffer, radiance |-> radiance,
       radiance_out |-> out_radiance, sampler |-> sampler],
      [gbuffer |-> gbuffer, radiance |-> out_radiance,
       radiance_out |-> radiance, sampler |-> sampler]>>

\* dispatch binding the first group in every pass.
bind_group_index_fixed(i) == 0

\* dispatch: `let index = i % 2;`
bind_group_index(i) == i % 2

\* dispatch: `let data = [(1 as u32) << i];`, i staying below count = 4, far
\* from the 32 bits of the u32.
push_constants(i) == <<2 ^ i>>

\* No command.
NoCommand ==
    [kind |-> "none", index |-> 0,
     bind_group |-> [gbuffer |-> "", radiance |-> "", radiance_out |-> "",
                     sampler |-> ""],
     push_constants |-> <<>>, workgroups |-> <<0, 0, 0>>,
     source |-> "", destination |-> ""]

\* The compute pass of iteration i, as the encoder records it.
ComputePass(bindgroups, i, workgroups) ==
    [NoCommand EXCEPT !.kind = "compute_pass",
                      !.index = bind_group_index(i),
                      !.bind_group = bindgroups[bind_group_index(i) + 1],
                      !.push_constants = push_constants(i),
                      !.workgroups = workgroups]

\* encoder.copy_texture_to_texture(first_output, retain, retain.size())
CopyTextureToTexture(first_output, retain) ==
    [NoCommand EXCEPT !.kind = "copy_texture_to_texture",
                      !.source = first_output, !.destination = retain]

\* A frame to denoise: the arguments of create_frame_bind_groups and of
\* dispatch.
Frames ==
    {[out_radiance |-> o, gbuffer |-> "gbuffer", radiance |-> r,
      sampler |-> "sampler", first_output |-> f, retain |-> k, size |-> z] :
        o \in {"ping", "pong"}, r \in {"ping", "pong"},
        f \in {"ping", "pong"}, k \in {"history", "pong"},
        z \in {<<1, 1, 1>>, <<8, 8, 1>>, <<9, 17, 1>>, <<64, 33, 1>>}}

\* No frame under way: an encoder without commands.
NoEncoder ==
    [state |-> "none", frame |-> <<>>, bindgroups |-> <<>>, i |-> 0,
     commands |-> <<>>]

\* ----------------------------------------------------------------- actions
\* BLASArray::new()
Init ==
    /\ entries = <<>>
    /\ nodes = <<>>
    /\ primitives = <<>>
    /\ vertices = <<>>
    /\ instances = <<>>
    /\ builder \in Builders
    /\ call = CallRecord("new", NoMesh, <<>>, 0, <<1, 1>>, 0, "ok")
    /\ appended = <<>>
    /\ created = <<>>
    /\ view = NoView
    /\ plugin = NoPlugin
    /\ set_call = NoSet
    /\ encoder = NoEncoder

\* BLASArray::add_bvh(mesh)
add_bvh(mesh) ==
    LET v == add_bvh_vertices(mesh)
        val == test(builder, mesh.positions)
    IN  /\ Len(entries) < MaxMeshes
        /\ entries' = Append(entries, NewEntry)
        /\ vertices' = vertices \o v.run
        /\ appended' = Append(appended, Len(vertices') - Len(vertices))
        /\ nodes' = IF v.panicked THEN nodes ELSE extend(nodes, val.nodes)
        /\ primitives' =
              IF v.panicked THEN primitives
              ELSE extend(primitives, val.primitives)
        /\ call' = CallRecord("add_bvh", mesh, <<>>, 0, <<1, 1>>, 0,
                              IF v.panicked THEN "panic" ELSE "ok")
        /\ UNCHANGED <<instances, builder, created, view, plugin, set_call,
                       encoder>>

\* BLASArray::add_bvh_indexed(desc)
add_bvh_indexed(desc) ==
    LET v == add_bvh_indexed_vertices(desc)
        val == test(builder, PositionsOf(v.run))
    IN  /\ Len(entries) < MaxMeshes
        /\ entries' = Append(entries, NewEntry)
        /\ vertices' = vertices \o v.run
        /\ appended' = Append(appended, Len(vertices') - Len(vertices))
        /\ nodes' = IF v.panicked THEN nodes ELSE extend(nodes, val.nodes)
        /\ primitives' =
              IF v.panicked THEN primitives
              ELSE extend(primitives, val.primitives)
        /\ call' = CallRecord("add_bvh_indexed", desc.mesh, desc.indices, 0,
                              <<1, 1>>, 0,
                              IF v.panicked THEN "panic" ELSE "ok")
        /\ UNCHANGED <<instances, builder, created, view, plugin, set_call,
                       encoder>>

\* add_instance recording an entry of its own next to the instance.
add_instance_pushing_entry(bvh_index, model_to_world, material) ==
    /\ Len(instances) < MaxInstances
    /\ bvh_index < Len(entries)
    /\ instances' = Append(instances,
          NewInstance(entries[bvh_index + 1], model_to_world, material))
    /\ entries' = Append(entries, NewEntry)
    /\ created' = Append(created, bvh_index)
    /\ call' = CallRecord("add_instance", NoMesh, <<>>, bvh_index,
                          model_to_world, material, "ok")
    /\ UNCHANGED <<nodes, primitives, vertices, builder, appended, view,
                   plugin, set_call, encoder>>

\* BLASArray::add_instance(bvh_index, model_to_world, material)
add_instance(bvh_index, model_to_world, material) ==
    /\ Len(instances) < MaxInstances
    /\ IF bvh_index < Len(entries)
       THEN /\ instances' = Append(instances,
                  NewInstance(entries[bvh_index + 1], model_to_world, material))
            /\ created' = Append(created, bvh_index)
            /\ call' = CallRecord("add_instance", NoMesh, <<>>, bvh_index,
                                  model_to_world, material, "ok")
       ELSE /\ instances' = instances
            /\ created' = created
            /\ call' = CallRecord("add_instance", NoMesh, <<>>, bvh_index,
                                  model_to_world, material, "panic")
    /\ UNCHANGED <<entries, nodes, primitives, vertices, builder, appended,
                   view, plugin, set_call, encoder>>

\* ---------------------------------------------------- inputs of the calls
\* Lengths of a view next to the length n that a mesh needs: one short,
\* exact, one long.
ViewLens(n) == {m \in {n - 1, n, n + 1} : m >= 0}

NormalChoices(n) == {None} \cup {Some(NormalView(m)) : m \in ViewLens(n)}
TexcoordChoices(n) == {None} \cup {Some(TexcoordView(m)) : m \in ViewLens(n)}

\* MeshDescriptor values handed to add_bvh: every position count up to
\* MaxVerts, each optional view absent, short, exact or long.
MeshDescriptors ==
    UNION {
        {[positions |-> PositionView(n), normals |-> nn, texcoords0 |-> tt] :
            nn \in NormalChoices(n), tt \in TexcoordChoices(n)} :
        n \in 0..MaxVerts}

\* Index arrays: L indices counting down from L - 1 to 0 (all distinct, not
\* the identity), or L indices stepping by 2 modulo 3 (shared vertices).
Descending(L) == [i \in 1..L |-> L - i]
Strided(L) == [i \in 1..L |-> (2 * (i - 1)) % 3]
IndexArrays ==
    {Descending(L) : L \in 0..MaxIdx} \cup {Strided(L) : L \in 0..MaxIdx}

\* Number of elements a view needs for an index array: max index + 1.
Needed(indices) ==
    IF indices = <<>> THEN 0
    ELSE 1 + CHOOSE m \in {indices[i] : i \in 1..Len(indices)} :
                \A i \in 1..Len(indices) : indices[i] <= m

\* IndexedMeshDescriptor values handed to add_bvh_indexed: a position view
\* that covers the indices with each optional view absent, short, exact or
\* long, or a position view one element short with the optional views both
\* absent or both exact.
IndexedMeshDescriptors ==
    UNION {
        {[mesh |-> [positions |-> PositionView(Needed(ix)), normals |-> nn,
                    texcoords0 |-> tt],
          indices |-> ix] :
            nn \in NormalChoices(Needed(ix)),
            tt \in TexcoordChoices(Needed(ix))}
        \cup
        {[mesh |-> [positions |-> PositionView(Needed(ix) - 1),
                    normals |-> a[1], texcoords0 |-> a[2]],
          indices |-> ix] :
            a \in IF ix = <<>> THEN {}
                  ELSE {<<None, None>>,
                        <<Some(NormalView(Needed(ix))),
                          Some(TexcoordView(Needed(ix)))>>}} :
        ix \in IndexArrays}

\* Arguments of add_instance: an invertible transform (scale 2) with
\* material 8, a singular one (scale 0) with material 9.
InstanceArguments == {<<<<2, 1>>, 8>>, <<<<0, 1>>, 9>>}

\* A few meshes of different kinds, for the behaviours with several meshes:
\* one triangle; MaxVerts positions with both views; one position with a
\* normal view of two elements (the call panics after the resize).
SmallMeshDescriptors ==
    {[positions |-> PositionView(3), normals |-> None, texcoords0 |-> None],
     [positions |-> PositionView(MaxVerts),
      normals |-> Some(NormalView(MaxVerts)),
      texcoords0 |-> Some(TexcoordView(MaxVerts))],
     [positions |-> PositionView(1), normals |-> Some(NormalView(2)),
      texcoords0 |-> None]}

\* The same for add_bvh_indexed: MaxIdx indices over three vertices; three
\* indices over a position view of two elements (the call panics at the
\* first index, after the resize).
SmallIndexedMeshDescriptors ==
    {[mesh |-> [positions |-> PositionView(3), normals |-> None,
                texcoords0 |-> None],
      indices |-> Strided(MaxIdx)],
     [mesh |-> [positions |-> PositionView(2), normals |-> None,
                texcoords0 |-> None],
      indices |-> Descending(3)]}

\* ---------------------------------------------------------- specifications
AddBvh == \E mesh \in MeshDescriptors : add_bvh(mesh)
AddBvhIndexed == \E desc \in IndexedMeshDescriptors : add_bvh_indexed(desc)
AddSmallBvh == \E mesh \in SmallMeshDescriptors : add_bvh(mesh)
AddSmallBvhIndexed ==
    \E desc \in SmallIndexedMeshDescriptors : add_bvh_indexed(desc)
AddInstance ==
    \E bvh_index \in 0..MaxMeshes, a \in InstanceArguments :
        add_instance(bvh_index, a[1], a[2])

\* The aggregator fed with meshes and instances, in any order.
Next == AddSmallBvh \/ AddSmallBvhIndexed \/ AddInstance
Spec == Init /\ [][Next]_vars

\* The calls made so far were made with the small meshes.
OnlySmallSoFar ==
    \/ call.op = "new"
    \/ call.op = "add_bvh" /\ call.mesh \in SmallMeshDescriptors
    \/ /\ call.op = "add_bvh_indexed"
       /\ [mesh |-> call.mesh, indices |-> call.indices]
             \in SmallIndexedMeshDescriptors

\* The aggregator fed with meshes only: some of the small meshes, then one
\* mesh of any kind.
AddBvhLast == OnlySmallSoFar /\ AddBvh
AddBvhIndexedLast == OnlySmallSoFar /\ AddBvhIndexed
NextMesh == AddBvhLast \/ AddBvhIndexedLast
SpecMesh == Init /\ [][NextMesh]_vars

\* One access to a view: the request is drawn first, then served.
InitViews ==
    /\ entries = <<>>
    /\ nodes = <<>>
    /\ primitives = <<>>
    /\ vertices = <<>>
    /\ instances = <<>>
    /\ builder = [reverse |-> FALSE, node_count |-> 1, empty_nodes |-> 0,
                  exponent |-> 127]
    /\ call = CallRecord("new", NoMesh, <<>>, 0, <<1, 1>>, 0, "ok")
    /\ appended = <<>>
    /\ created = <<>>
    /\ view \in {r \in AttributeSliceRequests : r.attribute < Len(r.formats)}
                  \cup StridedSliceRequests
    /\ plugin = NoPlugin
    /\ set_call = NoSet
    /\ encoder = NoEncoder

\* primitive.attribute::<T>(a)[i] on a Primitive made by
\* interleaved_with_count or soa_with_count.
AttributeSliceIndex ==
    /\ view.kind = "AttributeSlice"
    /\ view.result = "pending"
    /\ LET prim == IF view.layout = "Interleaved"
                   THEN interleaved_with_count(view.elements, view.formats)
                   ELSE soa_with_count(view.elements, view.formats)
           slice == attribute(prim, view.attribute, view.size)
           got == AttributeSlice_index(slice, view.size, view.index)
       IN  view' =
              IF slice.panicked
              THEN [view EXCEPT !.result = "format_panic"]
              ELSE [view EXCEPT !.result = got.result, !.read = got.read,
                                !.extent = Len(slice.data),
                                !.len = AttributeSlice_len(slice)]
    /\ UNCHANGED <<entries, nodes, primitives, vertices, instances, builder,
                   call, appended, created, plugin, set_call, encoder>>

\* slice.get::<M>(i) on a foreign buffer of `elements` elements, stride
\* bytes each.  A dereference outside the buffer is undefined behaviour:
\* the process reads whatever lies there ("garbage") or faults ("crash").
StridedSliceGet ==
    /\ view.kind = "StridedSlice"
    /\ view.result = "pending"
    /\ LET bytes == StridedSlice_get(view.stride, view.size, view.index)
           extent == view.stride * view.elements
       IN  \E outcome \in {"garbage", "crash"} :
              view' =
                 [view EXCEPT
                    !.extent = extent,
                    !.len = view.elements,
                    !.result = IF bytes \subseteq 0..(extent - 1)
                               THEN "ok" ELSE outcome,
                    !.read = IF bytes \subseteq 0..(extent - 1)
                                \/ outcome = "garbage"
                             THEN bytes ELSE {}]
    /\ UNCHANGED <<entries, nodes, primitives, vertices, instances, builder,
                   call, appended, created, plugin, set_call, encoder>>

NextViews == AttributeSliceIndex \/ StridedSliceGet
SpecViews == InitViews /\ [][NextViews]_vars

\* The aggregator fed with the small meshes, the builder's exponent bytes
\* being any u8 values.
InitExponent ==
    /\ entries = <<>>
    /\ nodes = <<>>
    /\ primitives = <<>>
    /\ vertices = <<>>
    /\ instances = <<>>
    /\ builder \in ExponentBuilders
    /\ call = CallRecord("new", NoMesh, <<>>, 0, <<1, 1>>, 0, "ok")
    /\ appended = <<>>
    /\ created = <<>>
    /\ view = NoView
    /\ plugin = NoPlugin
    /\ set_call = NoSet
    /\ encoder = NoEncoder

NextExponent == AddSmallBvh \/ AddSmallBvhIndexed
SpecExponent == InitExponent /\ [][NextExponent]_vars

\* --------------------------------------------------------- plugin actions
Running(t, at) == plugin.aborted = "" /\ plugin.pc[t] = at

AggregatorUntouched ==
    UNCHANGED <<entries, nodes, primitives, vertices, instances, builder,
                call, appended, created, view, set_call, encoder>>

\* A thread enters init().
init_call(t) ==
    /\ Running(t, "idle")
    /\ plugin.calls < MaxCalls
    /\ plugin' = [plugin EXCEPT !.pc[t] = "init_lock", !.calls = @ + 1]
    /\ AggregatorUntouched

\* init: `app.lock().unwrap()`
init_lock(t) ==
    /\ Running(t, "init_lock")
    /\ lock(plugin)
    /\ plugin' = [plugin EXCEPT !.owner = t, !.pc[t] = "init_store"]
    /\ AggregatorUntouched

\* init: `*guard = Some(App::new())`, the guard dropped with the statement.
init_store(t) ==
    /\ Running(t, "init_store")
    /\ plugin' = Return([plugin EXCEPT !.app = App_new], t)
    /\ AggregatorUntouched

\* A thread enters set_mesh_data(desc): the test of index_count comes
\* before the lock.  The buffers of desc hold index_count elements.
set_mesh_data_call(t, index_count) ==
    /\ Running(t, "idle")
    /\ plugin.calls < MaxCalls
    /\ plugin' =
          IF index_count % 3 # 0
          THEN Abort([plugin EXCEPT !.calls = @ + 1], "set_mesh_data",
                     NotTriangles)
          ELSE [plugin EXCEPT !.pc[t] = "set_mesh_data_lock",
                              !.calls = @ + 1,
                              !.id[t] = plugin.calls + 1]
    /\ AggregatorUntouched

\* set_mesh_data: `let mut guard = app.lock().unwrap();`
set_mesh_data_lock(t) ==
    /\ Running(t, "set_mesh_data_lock")
    /\ lock(plugin)
    /\ plugin' = [plugin EXCEPT !.owner = t, !.pc[t] = "set_mesh_data_runtime"]
    /\ AggregatorUntouched

\* set_mesh_data: `let runtime: &mut App = guard.as_mut().unwrap();`
set_mesh_data_runtime(t) ==
    /\ Running(t, "set_mesh_data_runtime")
    /\ plugin' =
          IF plugin.app.some
          THEN [plugin EXCEPT !.pc[t] = "set_mesh_data_build",
                              !.scene_before[t] = plugin.app.scene]
          ELSE Abort(plugin, "set_mesh_data", UnwrapNone)
    /\ AggregatorUntouched

\* set_mesh_data: the vertices are gathered and the BVH is built;
\* `Err(str) => return` leaves with the scene as it was.
set_mesh_data_build(t) ==
    /\ Running(t, "set_mesh_data_build")
    /\ \E result \in BLASArray_new :
          plugin' = [plugin EXCEPT
                        !.pc[t] = IF result = "Ok" THEN "set_mesh_data_store"
                                  ELSE "set_mesh_data_err"]
    /\ AggregatorUntouched

\* set_mesh_data: `runtime.scene = Some(SceneGPU::new(..))`
set_mesh_data_store(t) ==
    /\ Running(t, "set_mesh_data_store")
    /\ plugin' = [plugin EXCEPT !.app.scene = plugin.id[t],
                                !.stored = @ \cup {plugin.id[t]},
                                !.pc[t] = "set_mesh_data_return"]
    /\ AggregatorUntouched

\* set_mesh_data returns, after the store or after a failed build.
set_mesh_data_return(t) ==
    /\ \/ Running(t, "set_mesh_data_return")
       \/ Running(t, "set_mesh_data_err")
    /\ plugin' = Return(plugin, t)
    /\ AggregatorUntouched

\* A thread enters bake(raw_slice).
bake_call(t) ==
    /\ Running(t, "idle")
    /\ plugin.calls < MaxCalls
    /\ plugin' = [plugin EXCEPT !.pc[t] = "bake_lock", !.calls = @ + 1]
    /\ AggregatorUntouched

\* bake: `let mut guard = app.lock().unwrap();`
bake_lock(t) ==
    /\ Running(t, "bake_lock")
    /\ lock(plugin)
    /\ plugin' = [plugin EXCEPT !.owner = t, !.pc[t] = "bake_runtime"]
    /\ AggregatorUntouched

\* bake: `let runtime = guard.as_mut().unwrap();`
bake_runtime(t) ==
    /\ Running(t, "bake_runtime")
    /\ plugin' =
          IF plugin.app.some
          THEN [plugin EXCEPT !.pc[t] = "bake_scene"]
          ELSE Abort(plugin, "bake", UnwrapNone)
    /\ AggregatorUntouched

\* bake: the match on runtime.scene.
bake_scene(t) ==
    /\ Running(t, "bake_scene")
    /\ plugin' =
          IF scene_provided(plugin.app)
          THEN [plugin EXCEPT !.pc[t] = "bake_render"]
          ELSE Abort(plugin, "bake", NoSceneProvided)
    /\ AggregatorUntouched

\* bake: Renderer::new, renderer.lightmap(scene), the copy to the caller's
\* slice, and the return.  `out.copy_from_slice(&data)` panics when the
\* caller's slice is not of the size of the lightmap.
bake_render(t) ==
    /\ Running(t, "bake_render")
    /\ \E fits \in BOOLEAN :
          LET rendered == [plugin EXCEPT
                              !.rendered = @ \cup {plugin.app.scene}]
          IN  plugin' = IF fits THEN Return(rendered, t)
                        ELSE Abort(rendered, "bake", CopyLengths)
    /\ AggregatorUntouched

\* index_count of the descriptors handed to set_mesh_data.
IndexCounts == {3, 4}

PluginInit == \E t \in Threads : init_call(t) \/ init_lock(t) \/ init_store(t)
PluginSetMeshData ==
    \E t \in Threads :
       \/ \E index_count \in IndexCounts : set_mesh_data_call(t, index_count)
       \/ set_mesh_data_lock(t)
       \/ set_mesh_data_runtime(t)
       \/ set_mesh_data_build(t)
       \/ set_mesh_data_store(t)
       \/ set_mesh_data_return(t)
PluginBake ==
    \E t \in Threads :
       bake_call(t) \/ bake_lock(t) \/ bake_runtime(t) \/ bake_scene(t)
          \/ bake_render(t)
NextPlugin == PluginInit \/ PluginSetMeshData \/ PluginBake
\* The plugin from its load on; the aggregator stays as constructed.
InitPlugin ==
    /\ Init
    /\ builder = [reverse |-> FALSE, node_count |-> 1, empty_nodes |-> 0,
                  exponent |-> 127]
SpecPlugin == InitPlugin /\ [][NextPlugin]_vars

\* ------------------------------------------------------------- set calls
\* The aggregator as constructed and the plugin as loaded.
Untouched ==
    /\ entries = <<>>
    /\ nodes = <<>>
    /\ primitives = <<>>
    /\ vertices = <<>>
    /\ instances = <<>>
    /\ builder = [reverse |-> FALSE, node_count |-> 1, empty_nodes |-> 0,
                  exponent |-> 127]
    /\ call = CallRecord("new", NoMesh, <<>>, 0, <<1, 1>>, 0, "ok")
    /\ appended = <<>>
    /\ created = <<>>
    /\ view = NoView
    /\ plugin = NoPlugin

\* One set call: the request is drawn first, then served.
InitSet ==
    /\ Untouched
    /\ set_call \in {r \in SetRequests : r.attribute < Len(r.formats)}
    /\ encoder = NoEncoder

\* primitive.attribute::<T>(a).set::<V>(data) on a Primitive made by
\* interleaved_with_count.
AttributeSliceSet ==
    /\ set_call.op = "pending"
    /\ LET prim == [interleaved_with_count(set_call.elements,
                                           set_call.formats)
                       EXCEPT !.data = set_call.data]
           slice == attribute(prim, set_call.attribute, set_call.size)
           done == AttributeSlice_set(
                      slice, set_call.size,
                      SourceBytes(set_call.count, set_call.other_stride),
                      set_call.other_stride)
       IN  set_call' =
              IF slice.panicked
              THEN [set_call EXCEPT !.op = "done", !.result = "format_panic"]
              ELSE [set_call EXCEPT !.op = "done", !.result = done.result,
                                    !.data = done.data]
    /\ UNCHANGED <<entries, nodes, primitives, vertices, instances, builder,
                   call, appended, created, view, plugin, encoder>>

NextSet == AttributeSliceSet
SpecSet == InitSet /\ [][NextSet]_vars

\* ------------------------------------------------------------- ATrousPass
\* One frame: its arguments are drawn first.
InitATrous ==
    /\ Untouched
    /\ set_call = NoSet
    /\ encoder \in {[NoEncoder EXCEPT !.state = "new", !.frame = f] :
                       f \in Frames}

\* The caller makes the two bind groups of the frame.
CreateFrameBindGroups ==
    /\ encoder.state = "new"
    /\ encoder' =
          [encoder EXCEPT
              !.state = "bound",
              !.bindgroups =
                 create_frame_bind_groups(
                    encoder.frame.out_radiance, encoder.frame.gbuffer,
                    encoder.frame.radiance, encoder.frame.sampler)]
    /\ UNCHANGED <<entries, nodes, primitives, vertices, instances, builder,
                   call, appended, created, view, plugin, set_call>>

\* ATrousPass::dispatch, one iteration of its loop at a time: the compute
\* pass of iteration i, then the copy when i is 0.
Dispatch ==
    /\ encoder.state \in {"bound", "dispatching"}
    /\ encoder.i < ATrousPass_count
    /\ LET i == encoder.i
           workgroups == get_dispatch_size(encoder.frame.size, WORKGROUP_SIZE)
           pass == ComputePass(encoder.bindgroups, i, workgroups)
           copy == CopyTextureToTexture(encoder.frame.first_output,
                                        encoder.frame.retain)
       IN  encoder' =
              [encoder EXCEPT
                  !.state = IF i + 1 < ATrousPass_count THEN "dispatching"
                            ELSE "done",
                  !.i = i + 1,
                  !.commands = IF i = 0 THEN @ \o <<pass, copy>>
                               ELSE Append(@, pass)]
    /\ UNCHANGED <<entries, nodes, primitives, vertices, instances, builder,
                   call, appended, created, view, plugin, set_call>>

NextATrous == CreateFrameBindGroups \/ Dispatch
SpecATrous == InitATrous /\ [][NextATrous]_vars

\* ------------------------------------------------------------------ claims
IsAddMesh == call.op \in {"add_bvh", "add_bvh_indexed"}

\* The vertices, nodes and primitives the last call appended.
Appended(now, before) == SubSeq(now, Len(before) + 1, Len(now))

RECURSIVE SumUpTo(_, _)
SumUpTo(seq, n) == IF n = 0 THEN 0 ELSE seq[n] + SumUpTo(seq, n - 1)

\* C1: after any sequence of add_bvh / add_bvh_indexed calls, entries[i].vertex
\* is the sum of the numbers of vertices appended by the meshes before i, and
\* the run of the last mesh ends where the vertex array ends: no gap, no
\* overlap.
C1_VertexOffsetsAreSums ==
    /\ Len(appended) = Len(entries)
    /\ \A i \in 1..Len(entries) :
          entries[i].vertex = SumUpTo(appended, i - 1)
    /\ SumUpTo(appended, Len(appended)) = Len(vertices)

C1_Witness ==
    /\ Len(entries) = 2
    /\ appended[1] = 6
    /\ appended[2] = 3
    /\ entries[2].vertex = 6
    /\ Len(instances) = 1

\* C2: each add_bvh / add_bvh_indexed call pushes exactly one entry, made of
\* the lengths of nodes, primitives and vertices when the call started; the
\* first entry of an aggregator is (0, 0, 0).
C2_EntryAtLengthsBefore ==
    /\ IsAddMesh =>
          entries = Append(call.before.entries,
                           [node |-> Len(call.before.nodes),
                            primitive |-> Len(call.before.primitives),
                            vertex |-> Len(call.before.vertices)])
    /\ Len(entries) >= 1 =>
          entries[1] = [node |-> 0, primitive |-> 0, vertex |-> 0]

C2_Witness ==
    /\ call.op = "add_bvh_indexed"
    /\ Len(entries) = 2
    /\ entries[2] = [node |-> 1, primitive |-> 2, vertex |-> 6]

\* C3 (as claimed): add_instance with bvh_index >= entries.len() returns an
\* IndexOutOfRange error to its caller and leaves instances unchanged.
C3_IndexOutOfRangeReturned ==
    (call.op = "add_instance" /\ call.bvh_index >= Len(call.before.entries))
        => /\ call.result = "IndexOutOfRange"
           /\ instances = call.before.instances

\* C4 (as claimed): an add_bvh / add_bvh_indexed call that fails leaves the
\* five arrays as they were.
C4_FailureLeavesArrays ==
    (IsAddMesh /\ call.result # "ok") => Self = call.before

\* Number of triangles of the mesh of the last call.
TriangleCount ==
    IF call.op = "add_bvh" THEN Len(call.mesh.positions) \div 3
    ELSE Len(call.indices) \div 3

\* C5: a successful add_bvh / add_bvh_indexed call on a mesh with triangles
\* appends as many primitives as the mesh has triangles, and their
\* original_primitive values are 0..triangle_count-1, each exactly once.
C5_PrimitivesArePermutation ==
    (IsAddMesh /\ call.result = "ok" /\ TriangleCount >= 1) =>
        LET new == Appended(primitives, call.before.primitives)
        IN  /\ Len(new) = TriangleCount
            /\ {new[j].original_primitive : j \in 1..Len(new)}
                  = 0..(TriangleCount - 1)

C5_Witness ==
    /\ IsAddMesh
    /\ call.result = "ok"
    /\ TriangleCount = 2
    /\ Len(call.before.primitives) = 1
    /\ Len(primitives) = 3
    /\ primitives[2].original_primitive = 1
    /\ primitives[3].original_primitive = 0

\* C6: a successful add_instance appends exactly one Instance that holds the
\* three offsets of entries[bvh_index] and the transform and material given.
C6_InstanceCopiesEntry ==
    (call.op = "add_instance" /\ call.result = "ok") =>
        /\ Len(instances) = Len(call.before.instances) + 1
        /\ SubSeq(instances, 1, Len(call.before.instances))
              = call.before.instances
        /\ LET inst == instances[Len(instances)]
               entry == entries[call.bvh_index + 1]
           IN  /\ inst.bvh_root_index = entry.node
               /\ inst.vertex_root_index = entry.vertex
               /\ inst.bvh_primitive_index = entry.primitive
               /\ inst.material_index = call.material
               /\ inst.model_to_world = call.model_to_world

C6_Witness ==
    /\ call.op = "add_instance"
    /\ call.result = "ok"
    /\ call.bvh_index = 1
    /\ call.material = 9
    /\ Len(instances) = 2
    /\ instances[2].bvh_root_index = 1
    /\ instances[2].vertex_root_index = 6
    /\ instances[2].bvh_primitive_index = 2

\* C7 (as claimed): add_bvh with a position count that is not a multiple of
\* 3 fails with a MalformedMesh error.
C7_UnindexedCountChecked ==
    (call.op = "add_bvh" /\ Len(call.mesh.positions) % 3 # 0)
        => call.result = "MalformedMesh"

\* C8 (as claimed): add_bvh_indexed with an index count that is not a
\* multiple of 3 fails with a MalformedMesh error.
C8_IndexedCountChecked ==
    (call.op = "add_bvh_indexed" /\ Len(call.indices) % 3 # 0)
        => call.result = "MalformedMesh"

\* Number of elements the views of the last call's mesh must have.
VertexCountImplied ==
    IF call.op = "add_bvh" THEN Len(call.mesh.positions)
    ELSE Needed(call.indices)

\* C9 (as claimed): a call whose normal or texcoord view is shorter than the
\* vertex count the mesh implies does not complete.
C9_ShortViewRejected ==
    (/\ IsAddMesh
     /\ \/ /\ call.mesh.normals.some
           /\ Len(call.mesh.normals.view) < VertexCountImplied
        \/ /\ call.mesh.texcoords0.some
           /\ Len(call.mesh.texcoords0.view) < VertexCountImplied)
        => call.result # "ok"

\* Source element (0-based) of vertex k (1-based) of the last call's run.
SourceOf(k) == IF call.op = "add_bvh" THEN k - 1 ELSE call.indices[k]

\* C10: after a successful call on a mesh with texcoords, every vertex of
\* the run whose source element has a texcoord (u, v) holds u in position[3]
\* and v in normal[3], and position[0..3] / normal[0..3] hold the source
\* position and, where there is one, the source normal.
C10_UvPacked ==
    (IsAddMesh /\ call.result = "ok" /\ call.mesh.texcoords0.some) =>
        LET run == Appended(vertices, call.before.vertices)
        IN  \A k \in 1..Len(run) :
               LET src == SourceOf(k)
               IN  /\ Xyz(run[k].position) = Xyz(call.mesh.positions[src + 1])
                   /\ src < Len(call.mesh.texcoords0.view) =>
                        /\ run[k].position[4]
                              = call.mesh.texcoords0.view[src + 1][1]
                        /\ run[k].normal[4]
                              = call.mesh.texcoords0.view[src + 1][2]
                   /\ (call.mesh.normals.some
                          /\ src < Len(call.mesh.normals.view)) =>
                        Xyz(run[k].normal) = call.mesh.normals.view[src + 1]

C10_Witness ==
    /\ call.op = "add_bvh_indexed"
    /\ call.result = "ok"
    /\ call.mesh.texcoords0.some
    /\ call.mesh.normals.some
    /\ Len(call.before.vertices) = 3
    /\ Len(vertices) = 9
    /\ vertices[4].position = <<6, 36, 15, 55>>
    /\ vertices[4].normal = <<25, 35, 45, 65>>

\* C11 (as claimed): after a successful add_bvh / add_bvh_indexed call on a
\* mesh without texcoords, position[3] and normal[3] of every vertex of the
\* run are zero, whatever the 4th component of the source positions is.
C11_NoTexcoordsZeroW ==
    (IsAddMesh /\ call.result = "ok" /\ ~call.mesh.texcoords0.some) =>
        LET run == Appended(vertices, call.before.vertices)
        IN  \A k \in 1..Len(run) :
               /\ run[k].position[4] = 0
               /\ run[k].normal[4] = 0

\* a is the beginning of b, element for element.
IsPrefix(a, b) == Len(a) <= Len(b) /\ SubSeq(b, 1, Len(a)) = a

\* C12: the arrays are append-only: what entries, nodes, primitives,
\* vertices and instances held when a call started is an unchanged prefix of
\* what they hold after it, for add_bvh, add_bvh_indexed and add_instance.
C12_AppendOnly ==
    /\ IsPrefix(call.before.entries, entries)
    /\ IsPrefix(call.before.nodes, nodes)
    /\ IsPrefix(call.before.primitives, primitives)
    /\ IsPrefix(call.before.vertices, vertices)
    /\ IsPrefix(call.before.instances, instances)

C12_Witness ==
    /\ call.op = "add_bvh"
    /\ call.result = "ok"
    /\ Len(call.before.instances) = 1
    /\ Len(call.before.nodes) >= 1
    /\ Len(call.before.primitives) = 2
    /\ Len(call.before.vertices) = 6
    /\ Len(nodes) > Len(call.before.nodes)
    /\ Len(primitives) = 3
    /\ Len(vertices) = 9

\* Where the node run of entry i (1-based) ends: the node offset of the next
\* entry, or of the entry that the next call would push.
NodeEnd(i) == IF i < Len(entries) THEN entries[i + 1].node ELSE Len(nodes)

\* C13 (as claimed): node offsets never decrease from one entry to the next,
\* and they increase past every entry whose mesh was not empty (a mesh with
\* at least one vertex produces at least one node).
C13_NodeOffsetsMonotonic ==
    \A i \in 1..Len(entries) :
        /\ NodeEnd(i) >= entries[i].node
        /\ appended[i] > 0 => NodeEnd(i) > entries[i].node

\* C14 (as claimed): every node appended by a successful add_bvh /
\* add_bvh_indexed call addresses primitives of its own mesh: for each leaf
\* child, primitive_base_idx plus the child's offset is less than the number
\* of primitives the call appended.
C14_PrimitiveBaseEntryLocal ==
    (IsAddMesh /\ call.result = "ok") =>
        LET newNodes == Appended(nodes, call.before.nodes)
            count == Len(primitives) - Len(call.before.primitives)
        IN  \A j \in 1..Len(newNodes) :
               \A o \in 1..Len(newNodes[j].child_meta) :
                  newNodes[j].primitive_base_idx + newNodes[j].child_meta[o]
                     < count

\* Corner c (0, 1, 2) of input triangle t (0-based) of the last call's mesh.
Corner(t, c) == Xyz(call.mesh.positions[SourceOf(3 * t + c + 1) + 1])

\* C15 (as claimed): every primitive appended by a successful call, built
\* from the input triangle (v0, v1, v2) recorded in original_primitive,
\* holds vertex_0 = v0, edge_1 = v2 - v0 and edge_2 = v1 - v0.
C15_EdgesV2ThenV1 ==
    (IsAddMesh /\ call.result = "ok") =>
        LET new == Appended(primitives, call.before.primitives)
        IN  \A j \in 1..Len(new) :
               LET t == new[j].original_primitive
               IN  /\ new[j].vertex_0 = Corner(t, 0)
                   /\ new[j].edge_1 = Sub3(Corner(t, 2), Corner(t, 0))
                   /\ new[j].edge_2 = Sub3(Corner(t, 1), Corner(t, 0))

\* C16 (as claimed): an add_bvh / add_bvh_indexed call on a mesh without a
\* triangle, which the hierarchy builder cannot build, returns an error to
\* its caller: it does not return as a call that succeeded does.
C16_BuildFailurePropagated ==
    (IsAddMesh /\ TriangleCount = 0)
        => call.result \in {"BuildFailure", "MalformedMesh"}

\* A matrix (a fraction num / den) is singular when its scale is zero; its
\* entries are finite when its denominator is not zero.
IsSingular(m) == m[1] = 0
IsFinite(m) == m[2] # 0

\* C17 (as claimed): add_instance of a recorded entry with a singular
\* model_to_world returns an InvalidTransform error and appends no Instance,
\* and no stored Instance has a world_to_model with undefined (infinite /
\* NaN) entries.
C17_SingularTransformRejected ==
    /\ (/\ call.op = "add_instance"
        /\ call.bvh_index < Len(call.before.entries)
        /\ IsSingular(call.model_to_world)) =>
          /\ call.result = "InvalidTransform"
          /\ instances = call.before.instances
    /\ \A k \in 1..Len(instances) : IsFinite(instances[k].world_to_model)

\* The three offsets of an Instance.
Offsets(inst) ==
    <<inst.bvh_root_index, inst.bvh_primitive_index, inst.vertex_root_index>>

\* C18: an Instance never changes once appended (the instances held when a
\* call started are still there, field for field, after it); two instances
\* created with the same bvh_index hold the same three offsets, whatever
\* was added between them; and add_instance appends no node, no primitive
\* and no vertex.
C18_InstancesImmutableEntriesShared ==
    /\ IsPrefix(call.before.instances, instances)
    /\ Len(created) = Len(instances)
    /\ \A k, l \in 1..Len(instances) :
          created[k] = created[l] =>
              Offsets(instances[k]) = Offsets(instances[l])
    /\ call.op = "add_instance" =>
          /\ nodes = call.before.nodes
          /\ primitives = call.before.primitives
          /\ vertices = call.before.vertices

C18_Witness ==
    /\ call.op = "add_instance"
    /\ call.result = "ok"
    /\ created = <<0, 0>>
    /\ Len(call.before.entries) = 2
    /\ Len(nodes) > instances[1].bvh_root_index
    /\ instances[1].material_index = 8
    /\ instances[2].material_index = 9
    /\ Offsets(instances[2]) = <<0, 0, 0>>
    /\ entries[2].vertex = 6

\* C19: adding the same mesh twice in a row (same operation, same views,
\* same indices) appends the same run of nodes and the same run of
\* primitives the second time as the first, element for element; the first
\* of the two calls may be the first call on a new aggregator.
C19_SameMeshSameRuns ==
    [][(/\ IsAddMesh
        /\ IsAddMesh'
        /\ call'.op = call.op
        /\ call'.mesh = call.mesh
        /\ call'.indices = call.indices) =>
            /\ Appended(nodes', nodes) = Appended(nodes, call.before.nodes)
            /\ Appended(primitives', primitives)
                  = Appended(primitives, call.before.primitives)]_vars

C19_Witness ==
    /\ call.op = "add_bvh_indexed"
    /\ call.result = "ok"
    /\ call.indices = Strided(MaxIdx)
    /\ appended = <<6, 6>>
    /\ call.before.entries = <<[node |-> 0, primitive |-> 0, vertex |-> 0]>>
    /\ Len(call.before.nodes) >= 1
    /\ Len(nodes) = 2 * Len(call.before.nodes)
    /\ nodes[Len(call.before.nodes) + 1] = nodes[1]
    /\ Len(primitives) = 4
    /\ primitives[3] = primitives[1]
    /\ primitives[4] = primitives[2]

\* C20 (as claimed): an access to a view never reads a byte outside the
\* view's backing memory, and an access at a place at or past the view's
\* element count fails with the out-of-bounds panic; for AttributeSlice
\* indexing and for StridedSlice::get.
C20_ViewIndexChecked ==
    /\ view.read \subseteq 0..(view.extent - 1)
    /\ (/\ view.kind \in {"AttributeSlice", "StridedSlice"}
        /\ view.result \notin {"pending", "format_panic"}
        /\ view.index >= view.len) => view.result = "panic"

\* C21 (as claimed): asking for a slice of attribute a with an element type
\* wider than the attribute's format gives the caller a FormatMismatch error
\* value: the call does not panic.
C21_FormatMismatchReturned ==
    (/\ view.kind = "AttributeSlice"
     /\ view.result # "pending"
     /\ view.size > view.formats[view.attribute + 1])
        => view.result = "FormatMismatch"

\* C22: a successful add_bvh_indexed appends exactly indices.len() vertices;
\* vertex i of the run holds the position of source element indices[i], its
\* normal when the mesh has normals, its texcoord (u in position[3], v in
\* normal[3]) when the mesh has texcoords; and the primitive recorded for
\* triangle t is built from the positions at indices[3t], indices[3t+1],
\* indices[3t+2]: vertex_0 is the first and the two edges lead to the others.
C22_IndexedRunFollowsIndices ==
    (call.op = "add_bvh_indexed" /\ call.result = "ok") =>
        LET run == Appended(vertices, call.before.vertices)
            new == Appended(primitives, call.before.primitives)
            mesh == call.mesh
        IN  /\ Len(run) = Len(call.indices)
            /\ \A i \in 1..Len(run) :
                  LET src == call.indices[i]
                  IN  /\ Xyz(run[i].position) = Xyz(mesh.positions[src + 1])
                      /\ mesh.normals.some =>
                            Xyz(run[i].normal) = mesh.normals.view[src + 1]
                      /\ mesh.texcoords0.some =>
                            /\ run[i].position[4]
                                  = mesh.texcoords0.view[src + 1][1]
                            /\ run[i].normal[4]
                                  = mesh.texcoords0.view[src + 1][2]
            /\ Len(new) = Len(call.indices) \div 3
            /\ \A j \in 1..Len(new) :
                  LET t == new[j].original_primitive
                      p0 == Xyz(mesh.positions[call.indices[3 * t + 1] + 1])
                      p1 == Xyz(mesh.positions[call.indices[3 * t + 2] + 1])
                      p2 == Xyz(mesh.positions[call.indices[3 * t + 3] + 1])
                  IN  /\ new[j].vertex_0 = p0
                      /\ {new[j].edge_1, new[j].edge_2}
                            = {Sub3(p1, p0), Sub3(p2, p0)}

C22_Witness ==
    /\ call.op = "add_bvh_indexed"
    /\ call.result = "ok"
    /\ call.indices = Descending(MaxIdx)
    /\ call.mesh.normals.some
    /\ call.mesh.texcoords0.some
    /\ Len(call.before.vertices) = 3
    /\ Len(vertices) = 9
    /\ vertices[9].position = <<1, 1, 10, 50>>
    /\ vertices[9].normal = <<20, 30, 40, 60>>
    /\ Len(primitives) = Len(call.before.primitives) + 2
    /\ \E j \in 1..Len(primitives) :
          /\ primitives[j].original_primitive = 1
          /\ primitives[j].vertex_0 = <<3, 9, 12>>

\* A byte read as a signed 8-bit value (i8).
ToSigned(byte) == IF byte >= 128 THEN byte - 256 ELSE byte

\* The nodes the builder made for the mesh of the last call.
BuiltNodes == bvh_nodes(builder, TriangleCount)

\* C23 (as claimed): for every exponent byte e of the builder, 0..=255, on
\* every axis, the exponent stored in the appended node, read as a signed
\* 8-bit value, is e - 127.
C23_ExponentUnbiased ==
    (IsAddMesh /\ call.result = "ok") =>
        LET new == Appended(nodes, call.before.nodes)
        IN  \A j \in 1..Len(new) : \A axis \in 1..3 :
               ToSigned(new[j].exyz[axis]) = BuiltNodes[j].e[axis] - 127

\* C23 (amended): the same for every exponent byte e in 0..=254; for e = 255
\* the stored byte is 128, which reads as -128 and not as 128.
C23_ExponentUnbiasedBelow255 ==
    (IsAddMesh /\ call.result = "ok") =>
        LET new == Appended(nodes, call.before.nodes)
        IN  \A j \in 1..Len(new) : \A axis \in 1..3 :
               /\ BuiltNodes[j].e[axis] <= 254 =>
                     ToSigned(new[j].exyz[axis]) = BuiltNodes[j].e[axis] - 127
               /\ BuiltNodes[j].e[axis] = 255 =>
                     ToSigned(new[j].exyz[axis]) = 0 - 128

C23_Witness ==
    /\ IsAddMesh
    /\ call.result = "ok"
    /\ builder.exponent = 0
    /\ Len(call.before.nodes) >= 1
    /\ Len(nodes) > Len(call.before.nodes)
    /\ nodes[Len(nodes)].exyz[2] = 129
    /\ ToSigned(nodes[Len(nodes)].exyz[1]) = 127

\* The three offsets of an entry, in the order of Offsets.
EntryOffsets(entry) == <<entry.node, entry.primitive, entry.vertex>>

\* C24: after any sequence of calls, the offsets of every instance are the
\* offsets of some recorded entry, and none of them is past the end of the
\* array it points into.
C24_InstanceOffsetsOfSomeEntry ==
    \A k \in 1..Len(instances) :
        /\ \E i \in 1..Len(entries) :
              Offsets(instances[k]) = EntryOffsets(entries[i])
        /\ instances[k].bvh_root_index <= Len(nodes)
        /\ instances[k].bvh_primitive_index <= Len(primitives)
        /\ instances[k].vertex_root_index <= Len(vertices)

C24_Witness ==
    /\ Len(instances) = 2
    /\ Len(entries) = 2
    /\ Offsets(instances[1]) = EntryOffsets(entries[2])
    /\ Offsets(instances[2]) = <<0, 0, 0>>
    /\ entries[2].vertex = 3
    /\ entries[2].primitive = 1
    /\ Len(vertices) = 9
    /\ Len(primitives) = 3

\* C25: add_instance leaves entries, nodes, primitives and vertices as they
\* were and, when it completes, has grown instances by exactly one; add_bvh
\* and add_bvh_indexed leave instances as they were and grow entries by
\* exactly one.
C25_FrameOfEachCall ==
    /\ call.op = "add_instance" =>
          /\ entries = call.before.entries
          /\ nodes = call.before.nodes
          /\ primitives = call.before.primitives
          /\ vertices = call.before.vertices
          /\ call.result = "ok" =>
                Len(instances) = Len(call.before.instances) + 1
    /\ IsAddMesh =>
          /\ instances = call.before.instances
          /\ Len(entries) = Len(call.before.entries) + 1

C25_Witness ==
    /\ call.op = "add_instance"
    /\ call.result = "ok"
    /\ call.bvh_index = 0
    /\ call.material = 8
    /\ Len(call.before.instances) = 1
    /\ Len(instances) = 2
    /\ Len(entries) = 1
    /\ Len(vertices) = 6
    /\ Len(nodes) >= 1

\* Where the primitive run and the vertex run of entry i (1-based) end.
PrimitiveEnd(i) ==
    IF i < Len(entries) THEN entries[i + 1].primitive ELSE Len(primitives)
VertexEnd(i) ==
    IF i < Len(entries) THEN entries[i + 1].vertex ELSE Len(vertices)

\* C26 (as claimed): after any sequence of add_bvh / add_bvh_indexed calls,
\* the primitive run of every entry has floor(n / 3) primitives, n being the
\* number of vertices of the entry's vertex run.
C26_PrimitivesAreThirdOfVertices ==
    \A i \in 1..Len(entries) :
        PrimitiveEnd(i) - entries[i].primitive
            = (VertexEnd(i) - entries[i].vertex) \div 3

\* bake has panicked before it came to `Renderer::new`.
BakeAbortedBeforeRenderer ==
    /\ plugin.by = "bake"
    /\ \E t \in Threads :
          plugin.owner = t /\ plugin.pc[t] \in {"bake_runtime", "bake_scene"}

\* C27: bake never renders without a scene.  In every call order of init,
\* set_mesh_data and bake: a bake that goes on to create the renderer finds a
\* scene that an earlier set_mesh_data stored; a bake that aborts does so
\* with the 'No scene provided before bake()' panic; and a set_mesh_data
\* whose build failed leaves the stored scene, or its absence, as it was.
C27_BakeNeedsScene ==
    /\ \A t \in Threads :
          plugin.pc[t] = "bake_render" =>
             /\ plugin.app.scene # 0
             /\ plugin.app.scene \in plugin.stored
    /\ plugin.rendered \subseteq plugin.stored
    /\ BakeAbortedBeforeRenderer => plugin.aborted = NoSceneProvided
    /\ \A t \in Threads :
          plugin.pc[t] = "set_mesh_data_err" =>
             plugin.app.scene = plugin.scene_before[t]

\* C27, amended: as above, but a bake that aborts does so with the 'No scene
\* provided before bake()' panic when init has run, and with the panic of
\* `guard.as_mut().unwrap()` on None when init has never run.
C27_BakeNeedsSceneOnceInitialised ==
    /\ \A t \in Threads :
          plugin.pc[t] = "bake_render" =>
             /\ plugin.app.scene # 0
             /\ plugin.app.scene \in plugin.stored
    /\ plugin.rendered \subseteq plugin.stored
    /\ BakeAbortedBeforeRenderer =>
          \/ plugin.app.some /\ plugin.aborted = NoSceneProvided
          \/ ~plugin.app.some /\ plugin.aborted = UnwrapNone
    /\ \A t \in Threads :
          plugin.pc[t] = "set_mesh_data_err" =>
             plugin.app.scene = plugin.scene_before[t]

\* A bake has rendered the stored scene, and a later set_mesh_data whose
\* build failed is about to return with that scene still in place.
C27_Witness ==
    /\ plugin.rendered # {}
    /\ \E t \in Threads :
          /\ plugin.pc[t] = "set_mesh_data_err"
          /\ plugin.scene_before[t] \in plugin.rendered
          /\ plugin.app.scene = plugin.scene_before[t]

\* The places of set_mesh_data and bake between `app.lock()` and the return.
Holding(t) ==
    plugin.pc[t] \in {"set_mesh_data_runtime", "set_mesh_data_build",
                      "set_mesh_data_store", "set_mesh_data_err",
                      "set_mesh_data_return",
                      "bake_runtime", "bake_scene", "bake_render"}

\* C28: concurrent set_mesh_data and bake calls are serialized by the mutex,
\* which each holds from its lock() until it returns: no thread is between
\* the lock and the return of one of them unless it owns the mutex, so no
\* two threads are; no bake reads the scene while a set_mesh_data replaces
\* it, and no two set_mesh_data calls are both at their write of the scene.
C28_EntryPointsSerialized ==
    /\ \A t \in Threads : Holding(t) => plugin.owner = t
    /\ \A t, u \in Threads : Holding(t) /\ Holding(u) => t = u
    /\ \A t, u \in Threads :
          /\ plugin.pc[t] \in {"set_mesh_data_store", "set_mesh_data_return"}
          /\ plugin.pc[u] \in {"bake_scene", "bake_render",
                               "set_mesh_data_store", "set_mesh_data_return"}
          => t = u

\* One thread is about to write the scene while another has called bake
\* and waits for the mutex, an earlier set_mesh_data having stored a scene.
C28_Witness ==
    \E t, u \in Threads :
       /\ t # u
       /\ plugin.pc[t] = "set_mesh_data_store"
       /\ plugin.pc[u] = "bake_lock"
       /\ plugin.owner = t
       /\ plugin.app.scene # 0

\* The bytes of element i of attribute a of an interleaved Primitive.
BytesOf(formats, a, i) ==
    LET start == byte_offset_for(formats, a) + compute_stride(formats) * i
    IN  (start + 1)..(start + formats[a + 1])

\* C29: AttributeSlice::set(data) on attribute a of an interleaved Primitive.
\* When data has more elements than the slice, or its element type is wider
\* than the slice's, the call panics and no byte is written.  Else element i
\* of data lies at byte byte_offset(a) + stride * i for every i below
\* data.len(), and every byte of another attribute, and of the elements of
\* attribute a from data.len() on, is as it was.
C29_SetWritesItsElementsOnly ==
    set_call.op = "done" /\ set_call.result # "format_panic" =>
       LET f == set_call.formats
           a == set_call.attribute
           m == set_call.count
           v == set_call.other_stride
           before == interleaved_with_count(set_call.elements, f).data
           mine == UNION {BytesOf(f, a, i) : i \in 0..(m - 1)}
       IN  IF m > set_call.elements \/ v > set_call.size
           THEN /\ set_call.result \in {"panic_width", "panic_count"}
                /\ set_call.data = before
           ELSE /\ set_call.result = "ok"
                /\ Len(set_call.data) = Len(before)
                /\ \A i \in 0..(m - 1) : \A b \in 0..(v - 1) :
                      set_call.data[byte_offset_for(f, a)
                                    + compute_stride(f) * i + b + 1]
                         = SourceBytes(m, v)[i * v + b + 1]
                /\ \A k \in 1..Len(before) :
                      k \notin mine => set_call.data[k] = before[k]

\* One element, narrower than the format, written to the middle attribute
\* of three, of a Primitive of two elements.
C29_Witness ==
    /\ set_call.op = "done"
    /\ set_call.result = "ok"
    /\ set_call.formats = <<12, 12, 8>>
    /\ set_call.attribute = 1
    /\ set_call.size = 12
    /\ set_call.other_stride = 8
    /\ set_call.count = 1
    /\ set_call.elements = 2
    /\ set_call.data[13] = 1
    /\ set_call.data[20] = 8

\* The compute passes among the commands recorded so far, in order.
Passes == SelectSeq(encoder.commands, LAMBDA c : c.kind = "compute_pass")

\* The places of the copies among the commands recorded so far.
Copies ==
    {k \in 1..Len(encoder.commands) :
        encoder.commands[k].kind = "copy_texture_to_texture"}

\* C30: ATrousPass::dispatch records exactly 4 compute passes, in the order
\* i = 0, 1, 2, 3; pass i binds bindgroups[i % 2], so that it reads the
\* texture that pass i - 1 wrote, and pushes the step 2^i (1, 2, 4, 8); the
\* copy of first_output into retain is recorded exactly once, right after
\* pass 0 and before pass 1.
C30_FourPingPongPasses ==
    /\ \A k \in 1..Len(Passes) :
          /\ Passes[k].index = (k - 1) % 2
          /\ Passes[k].bind_group = encoder.bindgroups[((k - 1) % 2) + 1]
          /\ Passes[k].push_constants = <<2 ^ (k - 1)>>
          /\ k > 1 => Passes[k].bind_group.radiance
                         = Passes[k - 1].bind_group.radiance_out
    /\ Len(Passes) = encoder.i
    /\ encoder.i >= 1 =>
          /\ Copies = {2}
          /\ encoder.commands[1].kind = "compute_pass"
          /\ encoder.commands[2].source = encoder.frame.first_output
          /\ encoder.commands[2].destination = encoder.frame.retain
    /\ encoder.i = 0 => Copies = {}
    /\ encoder.state = "done" =>
          /\ Len(Passes) = 4
          /\ Len(encoder.commands) = 5
          /\ [k \in 1..4 |-> Passes[k].push_constants[1]] = <<1, 2, 4, 8>>

\* dispatch has returned for a frame whose two radiance textures differ.
C30_Witness ==
    /\ encoder.state = "done"
    /\ encoder.frame.radiance = "ping"
    /\ encoder.frame.out_radiance = "pong"
    /\ encoder.frame.size = <<9, 17, 1>>
    /\ encoder.commands[5].workgroups = <<2, 3, 1>>
    /\ encoder.commands[5].bind_group.radiance = "pong"
    /\ encoder.commands[5].bind_group.radiance_out = "ping"

====
